---- MODULE Spec2Model ----
(***************************************************************************)
(* Model of propositions/operators.py: the five syntactic conversions of   *)
(* propositional formulas to restricted operator bases.                    *)
(*                                                                         *)
(* A formula tree is a tuple: <<root>> for a variable or constant,         *)
(* <<root, first>> for a unary node, <<root, first, second>> for a binary  *)
(* node.  A Formula object, as the constructor returns it, is a record:    *)
(* tree is the tree, and n (its number of nodes), symbols (the symbols of  *)
(* its non-variable nodes) and wf (whether the constructor's arity checks  *)
(* passed at every node) are derived from the structure as it is built.    *)
(* A conversion reads its argument as a tree.  Every conversion returns a record: val is the formula the Python *)
(* function returns, br is the set of branches of the code that executed   *)
(* during the call, calls is the set of recursive calls made, each         *)
(* <<callee, whether the argument is a strict subtree of the node being    *)
(* processed>>.                                                            *)
(***************************************************************************)
EXTENDS Integers, Sequences, FiniteSets, TLC

MaxSize == 4

Variables == {"p", "q"}
Constants == {"T", "F"}
UnaryOps == {"~"}
BinaryOps == {"&", "|", "->", "+", "<->", "-&", "-|"}

is_variable(s) == s \in Variables
is_constant(s) == s \in Constants
is_unary(s) == s \in UnaryOps
is_binary(s) == s \in BinaryOps

first(f) == f[2]
second(f) == f[3]

(* Formula(root, first, second): the constructor, one operator per arity. *)
Formula1(root) ==
    [tree |-> <<root>>,
     n |-> 1,
     symbols |-> IF is_variable(root) THEN {} ELSE {root},
     wf |-> is_variable(root) \/ is_constant(root)]

Formula2(root, a) ==
    [tree |-> <<root, a.tree>>,
     n |-> 1 + a.n,
     symbols |-> {root} \cup a.symbols,
     wf |-> is_unary(root) /\ a.wf]

Formula3(root, a, b) ==
    [tree |-> <<root, a.tree, b.tree>>,
     n |-> 1 + a.n + b.n,
     symbols |-> {root} \cup a.symbols \cup b.symbols,
     wf |-> is_binary(root) /\ a.wf /\ b.wf]

(* The Formula object of an existing tree. *)
RECURSIVE FormulaOf(_)
FormulaOf(f) ==
    IF Len(f) = 1 THEN Formula1(f[1])
    ELSE IF Len(f) = 2 THEN Formula2(f[1], FormulaOf(first(f)))
    ELSE Formula3(f[1], FormulaOf(first(f)), FormulaOf(second(f)))

(* The well-formed trees of exactly n nodes. *)
RECURSIVE FormulasOfSize(_)
FormulasOfSize(n) ==
    IF n = 1
    THEN {<<s>> : s \in Variables \cup Constants}
    ELSE {<<op, f>> : op \in UnaryOps, f \in FormulasOfSize(n - 1)}
         \cup UNION {{<<op, a, b>> : op \in BinaryOps,
                                     a \in FormulasOfSize(k),
                                     b \in FormulasOfSize(n - 1 - k)}
                     : k \in 1..(n - 2)}

Models == [Variables -> BOOLEAN]

RECURSIVE evaluate(_, _)
evaluate(formula, model) ==
    LET root == formula[1] IN
    IF is_variable(root) THEN model[root]
    ELSE IF is_constant(root) THEN root = "T"
    ELSE IF is_unary(root) THEN ~evaluate(first(formula), model)
    ELSE LET a == evaluate(first(formula), model)
             b == evaluate(second(formula), model)
         IN CASE root = "&" -> a /\ b
              [] root = "|" -> a \/ b
              [] root = "->" -> (~a) \/ b
              [] root = "+" -> a # b
              [] root = "<->" -> a = b
              [] root = "-&" -> ~(a /\ b)
              [] root = "-|" -> ~(a \/ b)

RECURSIVE IsStrictSubtree(_, _)
IsStrictSubtree(arg, node) ==
    \E i \in 2..Len(node) : node[i] = arg \/ IsStrictSubtree(arg, node[i])

Call(callee, node, arg) == <<callee, IsStrictSubtree(arg, node)>>

Ret(val, br, calls) == [val |-> val, br |-> br, calls |-> calls]

RECURSIVE to_not_and_or(_)

(* to_not_and_or with the two disjuncts of the + expansion in the other order. *)
to_not_and_or_swapped_terms(formula) ==
    LET root == formula[1] IN
    IF is_variable(root) \/ is_constant(root)
    THEN IF root = "T"
         THEN LET p == Formula1("p")
              IN Ret(Formula3("|", p, Formula2("~", p)), {"to_not_and_or.T"}, {})
         ELSE IF root = "F"
         THEN LET p == Formula1("p")
              IN Ret(Formula3("&", p, Formula2("~", p)), {"to_not_and_or.F"}, {})
         ELSE Ret(Formula1(root), {"to_not_and_or.variable"}, {})
    ELSE IF is_unary(root) /\ root = "~"
    THEN LET r == to_not_and_or(first(formula))
         IN Ret(Formula2("~", r.val),
                r.br \cup {"to_not_and_or.~"},
                r.calls \cup {Call("to_not_and_or", formula, first(formula))})
    ELSE IF is_binary(root)
    THEN LET l == to_not_and_or(first(formula))
             r == to_not_and_or(second(formula))
             left == l.val
             right == r.val
             br == l.br \cup r.br
             calls == l.calls \cup r.calls
                      \cup {Call("to_not_and_or", formula, first(formula)),
                            Call("to_not_and_or", formula, second(formula))}
         IN IF root = "&" \/ root = "|"
            THEN Ret(Formula3(root, left, right), br \cup {"to_not_and_or.&|"}, calls)
            ELSE IF root = "->"
            THEN Ret(Formula3("|", Formula2("~", left), right),
                     br \cup {"to_not_and_or.->"}, calls)
            ELSE IF root = "+"
            THEN LET term1 == Formula3("&", left, Formula2("~", right))
                     term2 == Formula3("&", Formula2("~", left), right)
                 IN Ret(Formula3("|", term2, term1), br \cup {"to_not_and_or.+"}, calls)
            ELSE IF root = "<->"
            THEN LET term1 == Formula3("&", left, right)
                     term2 == Formula3("&", Formula2("~", left), Formula2("~", right))
                 IN Ret(Formula3("|", term1, term2), br \cup {"to_not_and_or.<->"}, calls)
            ELSE IF root = "-&"
            THEN Ret(Formula2("~", Formula3("&", left, right)),
                     br \cup {"to_not_and_or.-&"}, calls)
            ELSE IF root = "-|"
            THEN Ret(Formula2("~", Formula3("|", left, right)),
                     br \cup {"to_not_and_or.-|"}, calls)
            ELSE Ret(FormulaOf(formula), br \cup {"to_not_and_or.fallback"}, calls)
    ELSE Ret(FormulaOf(formula), {"to_not_and_or.fallback"}, {})

to_not_and_or(formula) ==
    LET root == formula[1] IN
    IF is_variable(root) \/ is_constant(root)
    THEN IF root = "T"
         THEN LET p == Formula1("p")
              IN Ret(Formula3("|", p, Formula2("~", p)), {"to_not_and_or.T"}, {})
         ELSE IF root = "F"
         THEN LET p == Formula1("p")
              IN Ret(Formula3("&", p, Formula2("~", p)), {"to_not_and_or.F"}, {})
         ELSE Ret(Formula1(root), {"to_not_and_or.variable"}, {})
    ELSE IF is_unary(root) /\ root = "~"
    THEN LET r == to_not_and_or(first(formula))
         IN Ret(Formula2("~", r.val),
                r.br \cup {"to_not_and_or.~"},
                r.calls \cup {Call("to_not_and_or", formula, first(formula))})
    ELSE IF is_binary(root)
    THEN LET l == to_not_and_or(first(formula))
             r == to_not_and_or(second(formula))
             left == l.val
             right == r.val
             br == l.br \cup r.br
             calls == l.calls \cup r.calls
                      \cup {Call("to_not_and_or", formula, first(formula)),
                            Call("to_not_and_or", formula, second(formula))}
         IN IF root = "&" \/ root = "|"
            THEN Ret(Formula3(root, left, right), br \cup {"to_not_and_or.&|"}, calls)
            ELSE IF root = "->"
            THEN Ret(Formula3("|", Formula2("~", left), right),
                     br \cup {"to_not_and_or.->"}, calls)
            ELSE IF root = "+"
            THEN LET term1 == Formula3("&", left, Formula2("~", right))
                     term2 == Formula3("&", Formula2("~", left), right)
                 IN Ret(Formula3("|", term1, term2), br \cup {"to_not_and_or.+"}, calls)
            ELSE IF root = "<->"
            THEN LET term1 == Formula3("&", left, right)
                     term2 == Formula3("&", Formula2("~", left), Formula2("~", right))
                 IN Ret(Formula3("|", term1, term2), br \cup {"to_not_and_or.<->"}, calls)
            ELSE IF root = "-&"
            THEN Ret(Formula2("~", Formula3("&", left, right)),
                     br \cup {"to_not_and_or.-&"}, calls)
            ELSE IF root = "-|"
            THEN Ret(Formula2("~", Formula3("|", left, right)),
                     br \cup {"to_not_and_or.-|"}, calls)
            ELSE Ret(FormulaOf(formula), br \cup {"to_not_and_or.fallback"}, calls)
    ELSE Ret(FormulaOf(formula), {"to_not_and_or.fallback"}, {})

RECURSIVE to_not_and_convert(_)
to_not_and_convert(expr) ==
    LET root == expr[1] IN
    IF is_variable(root) \/ is_constant(root)
    THEN IF root = "T"
         THEN LET p == Formula1("p")
              IN Ret(Formula2("~", Formula3("&", p, Formula2("~", p))),
                     {"to_not_and.convert.T"}, {})
         ELSE IF root = "F"
         THEN LET p == Formula1("p")
              IN Ret(Formula3("&", p, Formula2("~", p)), {"to_not_and.convert.F"}, {})
         ELSE Ret(FormulaOf(expr), {"to_not_and.convert.variable"}, {})
    ELSE IF is_unary(root)
    THEN LET r == to_not_and_convert(first(expr))
         IN Ret(Formula2("~", r.val),
                r.br \cup {"to_not_and.convert.~"},
                r.calls \cup {Call("to_not_and.convert", expr, first(expr))})
    ELSE IF is_binary(root)
    THEN LET l == to_not_and_convert(first(expr))
             r == to_not_and_convert(second(expr))
             left == l.val
             right == r.val
             br == l.br \cup r.br
             calls == l.calls \cup r.calls
                      \cup {Call("to_not_and.convert", expr, first(expr)),
                            Call("to_not_and.convert", expr, second(expr))}
         IN IF root = "&"
            THEN Ret(Formula3("&", left, right), br \cup {"to_not_and.convert.&"}, calls)
            ELSE IF root = "|"
            THEN Ret(Formula2("~", Formula3("&", Formula2("~", left),
                                                 Formula2("~", right))),
                     br \cup {"to_not_and.convert.|"}, calls)
            ELSE IF root \in {"->", "+", "<->", "-&", "-|"}
            THEN LET n == to_not_and_or(expr)
                     c == to_not_and_convert(n.val.tree)
                 IN Ret(c.val,
                        br \cup n.br \cup c.br \cup {"to_not_and.convert.reroute"},
                        calls \cup n.calls \cup c.calls
                        \cup {Call("to_not_and_or", expr, expr),
                              Call("to_not_and.convert", expr, n.val.tree)})
            ELSE Ret(FormulaOf(expr), br \cup {"to_not_and.convert.fallback"}, calls)
    ELSE Ret(FormulaOf(expr), {"to_not_and.convert.fallback"}, {})

(* to_not_and without the normalisation through to_not_and_or. *)
to_not_and_skip(formula) == to_not_and_convert(formula)

to_not_and(formula) ==
    LET formula_not_and_or == to_not_and_or(formula)
        c == to_not_and_convert(formula_not_and_or.val.tree)
    IN Ret(c.val, formula_not_and_or.br \cup c.br, formula_not_and_or.calls \cup c.calls)

RECURSIVE to_nand_convert(_)
to_nand_convert(expr) ==
    LET root == expr[1] IN
    IF is_variable(root)
    THEN Ret(FormulaOf(expr), {"to_nand.convert.variable"}, {})
    ELSE IF is_unary(root)
    THEN LET r == to_nand_convert(first(expr))
         IN Ret(Formula3("-&", r.val, r.val),
                r.br \cup {"to_nand.convert.~"},
                r.calls \cup {Call("to_nand.convert", expr, first(expr))})
    ELSE IF is_binary(root) /\ root = "&"
    THEN LET l == to_nand_convert(first(expr))
             r == to_nand_convert(second(expr))
             nand == Formula3("-&", l.val, r.val)
         IN Ret(Formula3("-&", nand, nand),
                l.br \cup r.br \cup {"to_nand.convert.&"},
                l.calls \cup r.calls
                \cup {Call("to_nand.convert", expr, first(expr)),
                      Call("to_nand.convert", expr, second(expr))})
    ELSE IF is_constant(root) /\ root = "T"
    THEN LET p == Formula1("p")
             nand_p == Formula3("-&", p, p)
         IN Ret(Formula3("-&", nand_p, nand_p), {"to_nand.convert.T"}, {})
    ELSE IF is_constant(root) /\ root = "F"
    THEN LET p == Formula1("p")
             nand_p == Formula3("-&", p, p)
         IN Ret(Formula3("-&", p, nand_p), {"to_nand.convert.F"}, {})
    ELSE Ret(FormulaOf(expr), {"to_nand.convert.fallback"}, {})

(* to_nand without any normalisation. *)
to_nand_skip(formula) == to_nand_convert(formula)

(* to_nand normalising through to_not_and_or instead of to_not_and. *)
to_nand_via_not_and_or(formula) ==
    LET formula_not_and_or == to_not_and_or(formula)
        c == to_nand_convert(formula_not_and_or.val.tree)
    IN Ret(c.val, formula_not_and_or.br \cup c.br, formula_not_and_or.calls \cup c.calls)

to_nand(formula) ==
    LET formula_not_and == to_not_and(formula)
        c == to_nand_convert(formula_not_and.val.tree)
    IN Ret(c.val, formula_not_and.br \cup c.br, formula_not_and.calls \cup c.calls)

RECURSIVE to_implies_not_convert(_)
to_implies_not_convert(expr) ==
    LET root == expr[1] IN
    IF is_variable(root)
    THEN Ret(FormulaOf(expr), {"to_implies_not.convert.variable"}, {})
    ELSE IF is_constant(root)
    THEN IF root = "T"
         THEN LET p == Formula1("p")
              IN Ret(Formula3("->", p, p), {"to_implies_not.convert.T"}, {})
         ELSE IF root = "F"
         THEN LET p == Formula1("p")
              IN Ret(Formula2("~", Formula3("->", p, p)),
                     {"to_implies_not.convert.F"}, {})
         ELSE Ret(FormulaOf(expr), {"to_implies_not.convert.fallback"}, {})
    ELSE IF is_unary(root)
    THEN LET r == to_implies_not_convert(first(expr))
         IN Ret(Formula2("~", r.val),
                r.br \cup {"to_implies_not.convert.~"},
                r.calls \cup {Call("to_implies_not.convert", expr, first(expr))})
    ELSE IF is_binary(root)
    THEN LET l == to_implies_not_convert(first(expr))
             r == to_implies_not_convert(second(expr))
             left == l.val
             right == r.val
             br == l.br \cup r.br
             calls == l.calls \cup r.calls
                      \cup {Call("to_implies_not.convert", expr, first(expr)),
                            Call("to_implies_not.convert", expr, second(expr))}
         IN IF root = "->"
            THEN Ret(Formula3("->", left, right),
                     br \cup {"to_implies_not.convert.->"}, calls)
            ELSE IF root = "&"
            THEN Ret(Formula2("~", Formula3("->", left, Formula2("~", right))),
                     br \cup {"to_implies_not.convert.&"}, calls)
            ELSE IF root = "|"
            THEN Ret(Formula3("->", Formula2("~", left), right),
                     br \cup {"to_implies_not.convert.|"}, calls)
            ELSE Ret(FormulaOf(expr), br \cup {"to_implies_not.convert.fallback"}, calls)
    ELSE Ret(FormulaOf(expr), {"to_implies_not.convert.fallback"}, {})

(* to_implies_not normalising through to_not_and instead of to_not_and_or. *)
to_implies_not_via_not_and(formula) ==
    LET formula_not_and == to_not_and(formula)
        c == to_implies_not_convert(formula_not_and.val.tree)
    IN Ret(c.val, formula_not_and.br \cup c.br, formula_not_and.calls \cup c.calls)

to_implies_not(formula) ==
    LET formula_not_and_or == to_not_and_or(formula)
        c == to_implies_not_convert(formula_not_and_or.val.tree)
    IN Ret(c.val, formula_not_and_or.br \cup c.br, formula_not_and_or.calls \cup c.calls)

RECURSIVE to_implies_false_convert(_)

(* to_implies_false's convert with the operands of the negation rule exchanged. *)
to_implies_false_convert_swapped(expr) ==
    LET root == expr[1] IN
    IF is_variable(root)
    THEN Ret(FormulaOf(expr), {"to_implies_false.convert.variable"}, {})
    ELSE IF root = "F"
    THEN Ret(Formula1("F"), {"to_implies_false.convert.F"}, {})
    ELSE IF is_unary(root)
    THEN LET r == to_implies_false_convert(first(expr))
         IN Ret(Formula3("->", Formula1("F"), r.val),
                r.br \cup {"to_implies_false.convert.~"},
                r.calls \cup {Call("to_implies_false.convert", expr, first(expr))})
    ELSE IF is_binary(root) /\ root = "->"
    THEN LET l == to_implies_false_convert(first(expr))
             r == to_implies_false_convert(second(expr))
         IN Ret(Formula3("->", l.val, r.val),
                l.br \cup r.br \cup {"to_implies_false.convert.->"},
                l.calls \cup r.calls
                \cup {Call("to_implies_false.convert", expr, first(expr)),
                      Call("to_implies_false.convert", expr, second(expr))})
    ELSE Ret(FormulaOf(expr), {"to_implies_false.convert.fallback"}, {})

to_implies_false_convert(expr) ==
    LET root == expr[1] IN
    IF is_variable(root)
    THEN Ret(FormulaOf(expr), {"to_implies_false.convert.variable"}, {})
    ELSE IF root = "F"
    THEN Ret(Formula1("F"), {"to_implies_false.convert.F"}, {})
    ELSE IF is_unary(root)
    THEN LET r == to_implies_false_convert(first(expr))
         IN Ret(Formula3("->", r.val, Formula1("F")),
                r.br \cup {"to_implies_false.convert.~"},
                r.calls \cup {Call("to_implies_false.convert", expr, first(expr))})
    ELSE IF is_binary(root) /\ root = "->"
    THEN LET l == to_implies_false_convert(first(expr))
             r == to_implies_false_convert(second(expr))
         IN Ret(Formula3("->", l.val, r.val),
                l.br \cup r.br \cup {"to_implies_false.convert.->"},
                l.calls \cup r.calls
                \cup {Call("to_implies_false.convert", expr, first(expr)),
                      Call("to_implies_false.convert", expr, second(expr))})
    ELSE Ret(FormulaOf(expr), {"to_implies_false.convert.fallback"}, {})

(* to_implies_false without the normalisation through to_implies_not. *)
to_implies_false_skip(formula) == to_implies_false_convert(formula)

(* to_implies_false normalising through to_not_and_or instead of to_implies_not. *)
to_implies_false_via_not_and_or(formula) ==
    LET formula_not_and_or == to_not_and_or(formula)
        c == to_implies_false_convert(formula_not_and_or.val.tree)
    IN Ret(c.val, formula_not_and_or.br \cup c.br, formula_not_and_or.calls \cup c.calls)

to_implies_false(formula) ==
    LET formula_implies_not == to_implies_not(formula)
        c == to_implies_false_convert(formula_implies_not.val.tree)
    IN Ret(c.val, formula_implies_not.br \cup c.br, formula_implies_not.calls \cup c.calls)

VARIABLES phi, fn, ret

vars == <<phi, fn, ret>>

(* The input formula: any well-formed formula of at most MaxSize nodes. *)
Init ==
    /\ \/ phi \in FormulasOfSize(1)
       \/ \E n \in 2..MaxSize :
             \/ \E op \in UnaryOps : \E f \in FormulasOfSize(n - 1) :
                  phi = <<op, f>>
             \/ \E k \in 1..(n - 2) : \E op \in BinaryOps :
                  \E a \in FormulasOfSize(k) : \E b \in FormulasOfSize(n - 1 - k) :
                     phi = <<op, a, b>>
    /\ fn = "none"
    /\ ret = Ret(FormulaOf(phi), {}, {})

CallToNotAndOr ==
    /\ fn = "none"
    /\ fn' = "to_not_and_or"
    /\ ret' = to_not_and_or(phi)
    /\ UNCHANGED phi

CallToNotAnd ==
    /\ fn = "none"
    /\ fn' = "to_not_and"
    /\ ret' = to_not_and(phi)
    /\ UNCHANGED phi

CallToNand ==
    /\ fn = "none"
    /\ fn' = "to_nand"
    /\ ret' = to_nand(phi)
    /\ UNCHANGED phi

CallToImpliesNot ==
    /\ fn = "none"
    /\ fn' = "to_implies_not"
    /\ ret' = to_implies_not(phi)
    /\ UNCHANGED phi

CallToImpliesFalse ==
    /\ fn = "none"
    /\ fn' = "to_implies_false"
    /\ ret' = to_implies_false(phi)
    /\ UNCHANGED phi

Next ==
    \/ CallToNotAndOr
    \/ CallToNotAnd
    \/ CallToNand
    \/ CallToImpliesNot
    \/ CallToImpliesFalse

Spec == Init /\ [][Next]_vars

out == ret.val.tree

Returned == fn # "none"

TypeOK == fn \in {"none", "to_not_and_or", "to_not_and", "to_nand",
                  "to_implies_not", "to_implies_false"}

(***************************************************************************)
(* Measures on formulas used by the properties.                            *)
(***************************************************************************)
RECURSIVE CountSymbol(_, _)
CountSymbol(f, s) ==
    (IF f[1] = s THEN 1 ELSE 0)
    + (IF Len(f) >= 2 THEN CountSymbol(first(f), s) ELSE 0)
    + (IF Len(f) = 3 THEN CountSymbol(second(f), s) ELSE 0)

P == <<"p">>
Q == <<"q">>
False == <<"F">>
True == <<"T">>
Not(a) == <<"~", a>>
And(a, b) == <<"&", a, b>>
Or(a, b) == <<"|", a, b>>
Implies(a, b) == <<"->", a, b>>
Xor(a, b) == <<"+", a, b>>
Nand(a, b) == <<"-&", a, b>>
Nor(a, b) == <<"-|", a, b>>

(***************************************************************************)
(* C1. Equivalence: whichever of the five functions was called, the input  *)
(* and the returned formula have the same truth value under every          *)
(* assignment to the variables (the placeholder p included).               *)
(***************************************************************************)
C1_Equivalence ==
    Returned => \A model \in Models : evaluate(phi, model) = evaluate(out, model)

(* to_nand was called on (q+T): the output mentions p, the input does not. *)
C1_Witness ==
    /\ fn = "to_nand"
    /\ phi = Xor(Q, True)
    /\ CountSymbol(phi, "p") = 0
    /\ CountSymbol(out, "p") > 0

(***************************************************************************)
(* C2. Basis restriction: every non-variable node of the output carries a  *)
(* symbol of the called function's target basis; no output contains T and  *)
(* only to_implies_false's output may contain F.                           *)
(***************************************************************************)
Basis(f) ==
    CASE f = "to_not_and_or" -> {"~", "&", "|"}
      [] f = "to_not_and" -> {"~", "&"}
      [] f = "to_nand" -> {"-&"}
      [] f = "to_implies_not" -> {"->", "~"}
      [] f = "to_implies_false" -> {"->", "F"}

C2_BasisRestriction ==
    Returned =>
        /\ ret.val.symbols \subseteq Basis(fn)
        /\ "T" \notin ret.val.symbols
        /\ "F" \in ret.val.symbols => fn = "to_implies_false"

(* to_implies_false was called on (T-|q) and its output contains F. *)
C2_Witness ==
    /\ fn = "to_implies_false"
    /\ phi = Nor(True, Q)
    /\ "F" \in ret.val.symbols

(***************************************************************************)
(* C3. to_not_and_or(phi) is structurally equal to the tree the stage-4.1  *)
(* rules give bottom-up with operand order preserved; to_not_and_or(p->q)  *)
(* is exactly (~p|q).                                                      *)
(***************************************************************************)
RECURSIVE Stage41(_)
Stage41(f) ==
    CASE f[1] \in Variables -> f
      [] f[1] = "T" -> Or(P, Not(P))
      [] f[1] = "F" -> And(P, Not(P))
      [] f[1] = "~" -> Not(Stage41(first(f)))
      [] f[1] = "&" -> And(Stage41(first(f)), Stage41(second(f)))
      [] f[1] = "|" -> Or(Stage41(first(f)), Stage41(second(f)))
      [] f[1] = "->" -> Or(Not(Stage41(first(f))), Stage41(second(f)))
      [] f[1] = "+" -> Or(And(Stage41(first(f)), Not(Stage41(second(f)))),
                          And(Not(Stage41(first(f))), Stage41(second(f))))
      [] f[1] = "<->" -> Or(And(Stage41(first(f)), Stage41(second(f))),
                            And(Not(Stage41(first(f))), Not(Stage41(second(f)))))
      [] f[1] = "-&" -> Not(And(Stage41(first(f)), Stage41(second(f))))
      [] f[1] = "-|" -> Not(Or(Stage41(first(f)), Stage41(second(f))))

C3_Stage41Structure ==
    fn = "to_not_and_or" =>
        /\ out = Stage41(phi)
        /\ phi = Implies(P, Q) => out = Or(Not(P), Q)

(* to_not_and_or was called on a + : the operand order and the order of the disjuncts matter. *)
C3_Witness ==
    /\ fn = "to_not_and_or"
    /\ phi = Xor(Q, Not(P))
    /\ out = Or(And(Q, Not(Not(P))), And(Not(Q), Not(P)))

(***************************************************************************)
(* C4. Totality and termination: a call returns a well-formed formula, and *)
(* every recursive call it made (of to_not_and_or or of an inner convert)  *)
(* was on a strict subtree of the node being processed, so the recursion   *)
(* descends a strictly decreasing tree size.                               *)
(***************************************************************************)
C4_TotalStructuralRecursion ==
    Returned =>
        /\ ret.val.wf
        /\ \A c \in ret.calls : c[2]
        /\ Len(phi) > 1 => ret.calls # {}

(* to_not_and was called on a nested formula: both to_not_and_or and convert recursed. *)
C4_Witness ==
    /\ fn = "to_not_and"
    /\ phi = <<"<->", Not(Q), True>>
    /\ {c[1] : c \in ret.calls} = {"to_not_and_or", "to_not_and.convert"}

(***************************************************************************)
(* C5. Stage 4.2 on constants.  As claimed: to_not_and(F) is (p&~p) and    *)
(* to_not_and(T) is ~(p&~p).                                               *)
(***************************************************************************)
C5_Original ==
    fn = "to_not_and" =>
        /\ phi = False => out = And(P, Not(P))
        /\ phi = True => out = Not(And(P, Not(P)))

(* C5 as amended: to_not_and(F) is (p&~p); to_not_and(T) is ~(~p&~~p), the *)
(* De Morgan image of to_not_and_or(T) = (p|~p); convert's own rule for T  *)
(* is not reached.                                                         *)
C5_Amended ==
    fn = "to_not_and" =>
        /\ phi = False => out = And(P, Not(P))
        /\ phi = True => /\ out = Not(And(Not(P), Not(Not(P))))
                         /\ "to_not_and.convert.T" \notin ret.br

C5_Witness ==
    /\ fn = "to_not_and"
    /\ phi = True
    /\ "to_not_and.convert.|" \in ret.br

(***************************************************************************)
(* C6. Stage 4.5 pass-through.  As claimed: for phi built only from        *)
(* variables, F and ->, to_implies_false(phi) is structurally equal to     *)
(* phi; in particular to_implies_false(F) is F.                            *)
(***************************************************************************)
InImpliesFalseBasis(f) == FormulaOf(f).symbols \subseteq {"->", "F"}

C6_Original ==
    fn = "to_implies_false" /\ InImpliesFalseBasis(phi) => out = phi

(* C6 as amended: the inner convert keeps variables and -> nodes and       *)
(* rewrites only negations, but the input first passes through             *)
(* to_implies_not; so for phi over variables, F and ->, the result equals  *)
(* phi only when phi is a variable, to_implies_false(F) is                 *)
(* ((p->((p->F)->F))->F), and to_implies_false(a->b) is (((a'->F)->F)->b') *)
(* with a', b' the converted operands.                                     *)
C6_Amended ==
    fn = "to_implies_false" /\ InImpliesFalseBasis(phi) =>
        /\ is_variable(phi[1]) => out = phi
        /\ phi = False =>
              out = Implies(Implies(P, Implies(Implies(P, False), False)), False)
        /\ phi[1] = "->" =>
              out = Implies(Implies(Implies(to_implies_false(first(phi)).val.tree, False), False),
                            to_implies_false(second(phi)).val.tree)
        /\ out = phi <=> is_variable(phi[1])

C6_Witness ==
    /\ fn = "to_implies_false"
    /\ phi = Implies(False, Q)
    /\ out # phi

(***************************************************************************)
(* C7. The formula to_nand's convert builds for T, ((p-&p)-&(p-&p)), is    *)
(* true under both values of p, and the formula it builds for F,           *)
(* (p-&(p-&p)), is false under both values of p.                           *)
(***************************************************************************)
C7_ConstantEncodings ==
    /\ phi = True =>
          /\ to_nand_convert(phi).val.tree = Nand(Nand(P, P), Nand(P, P))
          /\ \A model \in Models : evaluate(to_nand_convert(phi).val.tree, model)
    /\ phi = False =>
          /\ to_nand_convert(phi).val.tree = Nand(P, Nand(P, P))
          /\ \A model \in Models : ~evaluate(to_nand_convert(phi).val.tree, model)

(***************************************************************************)
(* C8. Defensive branches are unreachable: no call reaches a fallback that *)
(* returns its argument unchanged because no case matched, nor the branch  *)
(* of to_not_and's convert that re-routes through to_not_and_or.           *)
(***************************************************************************)
DefensiveBranches ==
    {"to_not_and_or.fallback", "to_not_and.convert.fallback",
     "to_not_and.convert.reroute", "to_nand.convert.fallback",
     "to_implies_not.convert.fallback", "to_implies_false.convert.fallback"}

C8_DefensiveUnreachable ==
    Returned => ret.br \cap DefensiveBranches = {}

(* to_not_and was called on a formula whose root is an operator the re-route lists. *)
C8_Witness ==
    /\ fn = "to_not_and"
    /\ phi = Xor(Not(Q), True)
    /\ "to_not_and.convert.|" \in ret.br

(***************************************************************************)
(* C9. Linear output size.  As claimed: the blow-up per eliminated         *)
(* operator is a constant and does not compound with nesting, so the       *)
(* output has at most c times the nodes of the input, c being the largest  *)
(* number of nodes the function produces for a single node: for a leaf, or *)
(* for one operator over variables less the nodes of its operands.         *)
(***************************************************************************)
nodes(f) == FormulaOf(f).n

Apply(f, formula) ==
    CASE f = "to_not_and_or" -> to_not_and_or(formula)
      [] f = "to_not_and" -> to_not_and(formula)
      [] f = "to_nand" -> to_nand(formula)
      [] f = "to_implies_not" -> to_implies_not(formula)
      [] f = "to_implies_false" -> to_implies_false(formula)

Max(S) == CHOOSE x \in S : \A y \in S : y <= x

PerNodeBlowUp(f) ==
    Max({Apply(f, <<s>>).val.n : s \in Variables \cup Constants}
        \cup {Apply(f, <<op, Q>>).val.n - 1 : op \in UnaryOps}
        \cup {Apply(f, <<op, Q, Q>>).val.n - 2 : op \in BinaryOps})

C9_Original ==
    Returned => ret.val.n <= PerNodeBlowUp(fn) * nodes(phi)

(* The factors of the amended bound, by function. *)
LinearFactor(f) ==
    CASE f = "to_not_and_or" -> 4
      [] f = "to_not_and" -> 7
      [] f = "to_implies_not" -> 6
      [] f = "to_implies_false" -> 9

(* C9 as amended: the output size is within a constant factor of the input *)
(* size for to_not_and_or, to_not_and, to_implies_not and to_implies_false *)
(* on inputs without + and <-> (factors 4, 7, 6 and 9).  The + and <->     *)
(* rules copy both converted operands twice, and to_nand's rule for ~      *)
(* copies the converted operand twice, so there the output size doubles    *)
(* with each level of nesting.                                             *)
C9_Amended ==
    Returned =>
        /\ fn # "to_nand" /\ FormulaOf(phi).symbols \cap {"+", "<->"} = {} =>
              ret.val.n <= LinearFactor(fn) * nodes(phi)
        /\ fn = "to_not_and_or" /\ phi[1] \in {"+", "<->"} =>
              ret.val.n = 2 * to_not_and_or(first(phi)).val.n
                          + 2 * to_not_and_or(second(phi)).val.n + 5
        /\ fn = "to_nand" /\ phi[1] = "~" =>
              ret.val.n = 2 * to_nand(first(phi)).val.n + 1

(* to_implies_false was called on F and produced the nine nodes its factor allows. *)
C9_Witness ==
    /\ fn = "to_implies_false"
    /\ phi = False
    /\ ret.val.n = 9

(***************************************************************************)
(* C10. No constant survives to_not_and_or, to_not_and or to_implies_not;  *)
(* the constant-rewriting branches of the inner convert helpers never      *)
(* execute; every F in an output of to_implies_false is the second operand *)
(* of a -> introduced for a negation.                                      *)
(***************************************************************************)
ConstantBranches ==
    {"to_not_and.convert.T", "to_not_and.convert.F",
     "to_nand.convert.T", "to_nand.convert.F",
     "to_implies_not.convert.T", "to_implies_not.convert.F",
     "to_implies_false.convert.F"}

(* Every F leaf of f is the second operand of a -> node. *)
RECURSIVE FOnlySecondOfImplies(_)
FOnlySecondOfImplies(f) ==
    /\ f # False
    /\ Len(f) = 2 => FOnlySecondOfImplies(first(f))
    /\ Len(f) = 3 => /\ FOnlySecondOfImplies(first(f))
                     /\ \/ f[1] = "->" /\ second(f) = False
                        \/ FOnlySecondOfImplies(second(f))

C10_NoConstantReachesConvert ==
    Returned =>
        /\ fn \in {"to_not_and_or", "to_not_and", "to_implies_not"} =>
              ret.val.symbols \cap Constants = {}
        /\ ret.br \cap ConstantBranches = {}
        /\ fn = "to_implies_false" =>
              /\ FOnlySecondOfImplies(out)
              /\ CountSymbol(out, "F") = CountSymbol(to_implies_not(phi).val.tree, "~")

(* to_implies_false was called on a formula holding both constants. *)
C10_Witness ==
    /\ fn = "to_implies_false"
    /\ phi = Nand(False, True)
    /\ "to_not_and_or.F" \in ret.br
    /\ "to_not_and_or.T" \in ret.br
====
